---- MODULE Spec2Model ----
(***************************************************************************)
(* Model of the crawl engine of email_automation_mvp/scraper.py:           *)
(* scrape_website (mode detection, priority scan, halt check, sitemap      *)
(* resolution, main crawl), get_sitemap_urls and the per-domain loop of    *)
(* main().                                                                 *)
(*                                                                         *)
(* The web is the environment: every fetch draws its response from a small *)
(* set.  A URL is a triple <<host, path, fragment>>; path 0 of OwnHost     *)
(* with no fragment is base_url, path DocPath is a document (".pdf").      *)
(***************************************************************************)
EXTENDS Integers, Sequences, FiniteSets, TLC

\* ---------------------------------------------------------------- bounds
NPaths == 3             \* page paths 0 .. NPaths-1 exist on the crawled host
MaxAnchors == 1         \* anchors of a page that does not link to every page
NSitemaps == 2          \* sitemap documents 1 .. NSitemaps
MaxLocs == 1            \* <loc> entries of one sitemap
ContactThreshold == 1   \* the contact threshold of spec 4.5(6), scaled down
MaxUrls == 2            \* lines of urls.txt
MaxRecords == 2         \* records one scrape_website call returns (MainSpec)
MaxRows == 3            \* rows of all_results (DedupSpec)
MaxPersons == 2         \* persons found on a case-study page
MaxMatches == 2         \* email matches in the text of a case-study page
MaxKeys == 3            \* keys listed in HUNTER_API_KEYS
MaxCalls == 2           \* calls of get_hunter_contacts on one manager

\* scraper.py:15 sets 100; the model runs the same code with a smaller cap.
MAX_PAGES_PER_DOMAIN == 3

\* ------------------------------------------------------------------ URLs
OwnHost == "example.com"
Hosts == {"example.com", "other.com", "www.example.com"}
DocPath == NPaths
Frags == {"", "x"}

\* The URLs of the model: every path of the crawled host, a fragment variant
\* of path 1 and one page on each other host.
URLS == {u \in Hosts \X (0..DocPath) \X Frags :
            IF u[1] = OwnHost THEN (u[3] = "" \/ u[2] = 1) ELSE (u[2] = 1 /\ u[3] = "")}

base_url == <<OwnHost, 0, "">>

\* urlparse(url).netloc
Netloc(u) == u[1]

\* link.split('#')[0]
StripFragment(u) == <<u[1], u[2], "">>

\* any(link.lower().endswith(ext) for ext in file_extensions)
IsDocument(u) == u[2] = DocPath

\* netloc.replace('www.', '')
DropWww(h) == IF h = "www.example.com" THEN "example.com" ELSE h

\* Python's string order on the URLs of the model, for sorted().
HostRank(h) == CASE h = "example.com" -> 0 [] h = "other.com" -> 1 [] OTHER -> 2
FragRank(f) == IF f = "" THEN 0 ELSE 1
UrlKey(u) == (HostRank(u[1]) * (DocPath + 1) + u[2]) * 2 + FragRank(u[3])

RECURSIVE Sorted(_)
Sorted(S) ==
    IF S = {} THEN <<>>
    ELSE LET m == CHOOSE u \in S : \A v \in S : UrlKey(u) <= UrlKey(v)
         IN  <<m>> \o Sorted(S \ {m})

\* list(some_set): Python fixes no order on the elements of a set.
Lists(S) == {q \in [1..Cardinality(S) -> S] : \A i, j \in 1..Cardinality(S) : q[i] = q[j] => i = j}

Range(q) == {q[i] : i \in 1..Len(q)}

\* ---------------------------------------------------- pages and responses
Emails == {"a@x.org"}
EmailLists == UNION {Lists(S) : S \in SUBSET Emails}
\* The anchors of one page: at most MaxAnchors of them, or one to every
\* URL of the crawled host.
OwnUrls == {u \in URLS : u[1] = OwnHost}
AnchorSets == {S \in SUBSET URLS : Cardinality(S) <= MaxAnchors} \cup {OwnUrls}

\* find_priority_links keeps the anchors whose href or text holds a keyword:
\* none of them, one of them, or all of them.
PriorityLinkSets(anchors) == {{}, anchors} \cup {{a} : a \in anchors}

\* What one page fetch returns when it succeeds: the emails
\* parse_html_for_emails_and_links finds (in list order) and the resolved
\* hrefs of the page's anchors.
PageResponses == [emails : EmailLists, anchors : AnchorSets]

\* html_content as scrape_website keeps it after the probe: whether the
\* local is bound, and the anchors find_priority_links keeps from it.
NoHtml == [bound |-> FALSE, prio |-> {}]
Html(prio) == [bound |-> TRUE, prio |-> prio]

\* What the static probe of mode detection observed: how it ended ("ok",
\* "failed" with a requests.RequestException, "raised" with another
\* exception), whether parse_html_for_emails_and_links found a page link, a
\* document link, an email in the text, a decoded email, and whether the
\* html holds "email-protection".
NoProbe == [outcome |-> "none", links |-> FALSE, files |-> FALSE,
            marker |-> FALSE, plain |-> FALSE, decoded |-> FALSE]
ProbeFailed(outcome) == [NoProbe EXCEPT !.outcome = outcome]
Probed(links, files, marker, plain, from_cf) ==
    [outcome |-> "ok", links |-> links, files |-> files,
     marker |-> marker, plain |-> plain, decoded |-> from_cf]

\* What the fetch of robots.txt gave: how it ended ("error": an exception,
\* "status": a status other than 200, "ok") and the targets of the
\* Sitemap: lines of its content.
NoRobots == [outcome |-> "none", directives |-> {}]
Robots(outcome, directives) == [outcome |-> outcome, directives |-> directives]

\* The anchor of the scenario of spec 8: <a href="mailto:info@example.com">
\* Info Team</a>, its email nowhere in the text of the page.
MailtoEmail == "info@example.com"
MailtoText == "Info Team"

\* parse_html_for_emails_and_links: file_links and page_links of a page at url
FileLinks(anchors) == {StripFragment(a) : a \in {b \in anchors : IsDocument(b)}}
PageLinks(url, anchors) ==
    {StripFragment(a) : a \in {b \in anchors : ~IsDocument(b) /\ Netloc(b) = Netloc(url)}}

\* process_file_url(url) -> (emails, names); names_str = ", ".join(names)
FileResults == {[emails |-> <<>>, names |-> ""],
                [emails |-> <<"a@x.org">>, names |-> "Jane Doe"]}

EmailRecords(emails, url) ==
    [i \in 1..Len(emails) |-> [email |-> emails[i], name |-> "", source |-> url]]
FileRecords(res, file_url) ==
    [i \in 1..Len(res.emails) |-> [email |-> res.emails[i], name |-> res.names, source |-> file_url]]

\* for file_url in file_links: if file_url not in processed_file_urls: ...
RECURSIVE ProcessFileLinks(_, _, _, _)
ProcessFileLinks(order, fr, processed, data) ==
    IF order = <<>> THEN [data |-> data, processed |-> processed]
    ELSE LET f == Head(order) IN
         IF f \in processed
         THEN ProcessFileLinks(Tail(order), fr, processed, data)
         ELSE ProcessFileLinks(Tail(order), fr, processed \cup {f},
                               data \o FileRecords(fr[f], f))

\* ------------------------------------------------------------- variables
VARIABLES
    pc,                      \* position in scrape_website / main
    use_playwright,
    html_content,            \* the html mode detection kept, or NoHtml
    found_data,
    visited_urls,
    pages_crawled,
    processed_file_urls,
    priority_todo,           \* rest of sorted(list(priority_urls))
    links_for_general_crawl,
    sitemap_urls,
    urls_to_visit,
    page,                    \* "none" | "open" | "closed"
    session,                 \* "none" | "open" | "closed"
    urls_to_parse,           \* get_sitemap_urls
    parsed_sitemaps,
    sm_found,                \* get_sitemap_urls' local sitemap_urls
    fetch_log,               \* history: every page fetch, see Fetch
    resolver_called,         \* history: get_sitemap_urls was called
    sitemap_log,             \* history: every sitemap fetch
    enqueue_log,             \* history: every URL put on urls_to_visit
    halted,                  \* history: returned at line 309
    probe,                   \* what mode detection saw, until the crawl starts
    mailto_seen,             \* a page of the priority scan held the mailto anchor
    sm_outcome,              \* history: what each sitemap fetch gave
    sm_pending,              \* history: every URL put in urls_to_parse
    sm_robots,               \* history: what the fetch of robots.txt gave
    linked_pages,            \* history: the pages the main crawl saw links to
    last_fetch,              \* how the page fetch of the last step ended
    urls, url_idx, all_results, crawled, main_pc,
    sort_kind,               \* how this build's sort_values orders equal keys
    exported,                \* the rows written to results.csv
    reexported,              \* history: the export step applied to exported
    raw_log                  \* history: what each scrape_website call gave

crawl_vars == <<pc, use_playwright, html_content, found_data, visited_urls,
                pages_crawled, processed_file_urls, priority_todo,
                links_for_general_crawl, sitemap_urls, urls_to_visit, page,
                session, urls_to_parse, parsed_sitemaps, sm_found, fetch_log,
                sitemap_log, enqueue_log, halted, resolver_called, probe,
                mailto_seen, sm_outcome, sm_pending, sm_robots, linked_pages,
                last_fetch>>
main_vars == <<urls, url_idx, all_results, crawled, main_pc, sort_kind,
              exported, reexported, raw_log>>

sm_vars == <<urls_to_parse, parsed_sitemaps, sm_found, sitemap_log,
            sm_outcome, sm_pending, sm_robots>>
\* the history of the page fetches of the main crawl
trail_vars == <<linked_pages, last_fetch>>
frontier_vars == <<sitemap_urls, urls_to_visit, enqueue_log>>

\* ------------------------------------- email extraction from one page
\* A text is the sequence of its character codes; a Cloudflare payload is a
\* sequence of symbols, the hex digits 0..15 and 16 for any other character.
HexDigits == 0..15
PayloadSymbols == 0..16
KeyBytes == 0..255

\* "a@b.io", "a@b.js", "a@b.png", "a@b.svg"
Email_io == <<97, 64, 98, 46, 105, 111>>
Email_js == <<97, 64, 98, 46, 106, 115>>
Email_png == <<97, 64, 98, 46, 112, 110, 103>>
Email_svg == <<97, 64, 98, 46, 115, 118, 103>>

\* Line 42: ('.png', '.jpg', '.gif', '.jpeg', '.css', '.js')
FilteredExtensions ==
    {<<46, 112, 110, 103>>, <<46, 106, 112, 103>>, <<46, 103, 105, 102>>,
     <<46, 106, 112, 101, 103>>, <<46, 99, 115, 115>>, <<46, 106, 115>>}

\* str.endswith
EndsWith(s, ext) ==
    Len(s) >= Len(ext) /\ SubSeq(s, Len(s) - Len(ext) + 1, Len(s)) = ext
\* Line 42: if not email.endswith((...))
KeepMatch(email) == \A ext \in FilteredExtensions : ~EndsWith(email, ext)

\* a ^ b on non-negative integers
RECURSIVE Xor(_, _)
Xor(a, b) ==
    IF a = 0 THEN b
    ELSE IF b = 0 THEN a
    ELSE (((a % 2) + (b % 2)) % 2) + 2 * Xor(a \div 2, b \div 2)

\* encoded_string[i:i+2] for the 0-based index i
Slice2(s, i) == SubSeq(s, i + 1, IF i + 2 <= Len(s) THEN i + 2 ELSE Len(s))
\* int(s, 16) of a slice of one or two symbols; -1 stands for ValueError
\* (the empty string, or a character that is no hex digit).
RECURSIVE HexInt(_)
HexInt(s) ==
    IF s = <<>> \/ \E i \in 1..Len(s) : s[i] \notin HexDigits THEN -1
    ELSE IF Len(s) = 1 THEN s[1]
    ELSE (16 * HexInt(SubSeq(s, 1, Len(s) - 1))) + s[Len(s)]

\* What decode_cf_email returns: None, or a string.
None == [none |-> TRUE, text |-> <<>>]
Str(text) == [none |-> FALSE, text |-> text]

\* Lines 23-29
decode_cf_email(encoded_string) ==
    LET r == HexInt(Slice2(encoded_string, 0))
        starts == {i \in 2..(Len(encoded_string) - 1) : i % 2 = 0}   \* range(2, len, 2)
        n == Cardinality(starts)
    IN  IF r = -1 \/ \E i \in starts : HexInt(Slice2(encoded_string, i)) = -1
        THEN None
        ELSE Str([j \in 1..n |-> Xor(HexInt(Slice2(encoded_string, 2 * j)), r)])

\* The payload Cloudflare writes for an email under key byte k: the two hex
\* digits of k, then the two hex digits of every character XOR k.
HexPair(b) == <<b \div 16, b % 16>>
RECURSIVE Encode(_, _)
Encode(email, k) ==
    IF email = <<>> THEN HexPair(k)
    ELSE Encode(SubSeq(email, 1, Len(email) - 1), k) \o HexPair(Xor(email[Len(email)], k))

\* The payloads of the model: well-formed ones and, from each of them, one
\* cut to an odd length, one with a character that is no hex digit, one cut
\* to the key alone; and the empty payload.
WellFormedPayloads == {Encode(e, k) : e \in {Email_io, Email_js}, k \in KeyBytes}
Payloads ==
    WellFormedPayloads
    \cup {SubSeq(p, 1, Len(p) - 1) : p \in WellFormedPayloads}
    \cup {[p EXCEPT ![3] = 16] : p \in WellFormedPayloads}
    \cup {SubSeq(p, 1, 2) : p \in WellFormedPayloads}
    \cup {<<>>}

\* What re.findall(EMAIL_REGEX, soup.get_text()) can give on a page
TextMatches == {Email_io, Email_png, Email_svg}
\* The protected email of a page, if any: an <a href=".../cdn-cgi/l/
\* email-protection#payload"> or a <span class="__cf_email__" data-cfemail>.
CfTags == {[kind |-> "none", payload |-> <<>>]} \cup [kind : {"anchor", "span"}, payload : Payloads]

\* ------------------------------------------- case-study page (analyzer)
Email_upper == <<65, 64, 98, 46, 105, 111>>       \* "A@b.io"
Email_c == <<99, 64, 98, 46, 105, 111>>           \* "c@b.io"
\* What _extract_names_and_titles finds on a page: at most MaxPersons
\* persons (none when the NER model is not loaded).
Persons == [name : {"Jane Doe", "John Roe"}, title : {"", "CEO"}]
PersonLists == UNION {[1..n -> Persons] : n \in 0..MaxPersons}
\* The email-like strings of the page text, in page order.
PageMatches == {Email_io, Email_upper, Email_c, Email_png}
MatchLists == UNION {[1..n -> PageMatches] : n \in 0..MaxMatches}

\* text.lower() (line 20), on the letters A-Z
LowerText(s) == [i \in 1..Len(s) |-> IF s[i] >= 65 /\ s[i] <= 90 THEN s[i] + 32 ELSE s[i]]

\* Lines 34-39: the emails of a text, as a set
ExtractedEmails(matches) ==
    {e \in {LowerText(matches[i]) : i \in 1..Len(matches)} : KeepMatch(e)}

\* --------------------------------------------------- variables, continued
VARIABLES
    page_text,               \* the regex matches of the parsed page's text
    cf_tag,                  \* its protected email tag
    decoded,                 \* decoded_email
    emails_out,              \* the emails parse_html_for_emails_and_links returns
    ex_pc,
    cs_page,                 \* the persons and email matches of a case-study page
    cs_contacts,             \* what find_contacts_on_case_study_page returns
    cs_pc

extract_vars == <<page_text, cf_tag, decoded, emails_out, ex_pc>>
case_vars == <<cs_page, cs_contacts, cs_pc>>

\* ------------------------------------- ApiKeyManager and hunter_client
\* The entries of self.keys: HUNTER_API_KEYS split at ',' and stripped, so a
\* key can be listed twice and "k1,,k2" or "k1," give an empty entry.
KeyStrings == {"k1", "k2", ""}
KeyLists == UNION {[1..n -> KeyStrings] : n \in 0..MaxKeys}

\* What get_key returns: None, or a key.
NoKey == [none |-> TRUE, key |-> ""]
Key(k) == [none |-> FALSE, key |-> k]

\* api_key_manager.py lines 30-32; current_key_index counts from 0
get_key(ks, index) ==
    IF ks = <<>> \/ index >= Len(ks) THEN NoKey ELSE Key(ks[index + 1])

\* Mutant of RotateIndex: the index stays where it is.
RotateIndex_Stay(index) == index

\* Line 41: self.current_key_index += 1
RotateIndex(index) == index + 1

\* Lines 42-47: what rotate_key returns, index being the index after line 41
rotate_key(ks, index) == index < Len(ks)

\* The last call made on the manager, and what it returned.
NoCall == [op |-> "none", key |-> NoKey, rotated |-> FALSE]
GotKey(k) == [op |-> "get_key", key |-> k, rotated |-> FALSE]
Rotated(b) == [op |-> "rotate_key", key |-> NoKey, rotated |-> b]

\* What requests.get gives get_hunter_contacts: a response with its status
\* and what its JSON holds, or (status 0) an exception.
NoResponse == [status |-> 0, body |-> "none"]
HunterResponses ==
    [status : {401, 429, 500}, body : {"error"}] \cup
    [status : {200}, body : {"emails", "nodata", "invalid"}] \cup
    {[status |-> 0, body |-> "exception"]}

\* Mutant of ShouldRotate: no status makes the client rotate.
ShouldRotate_Never(status) == FALSE

\* hunter_client.py line 33: if response.status_code in [401, 429]
ShouldRotate(status) == status \in {401, 429}

VARIABLES
    keys,                    \* ApiKeyManager.keys
    current_key_index,       \* ApiKeyManager.current_key_index
    km_last,                 \* the last call on the manager and its result
    rotated_from,            \* history: the indexes rotate_key was called at
    hc_pc,                   \* get_hunter_contacts: "idle" | "loop" | "returned"
    hc_requests,             \* history: requests.get calls of the current call
    hc_result,               \* what the call returned: "empty" | "contacts"
    hc_status,               \* the response of the last iteration
    hc_calls                 \* calls of get_hunter_contacts so far

key_vars == <<keys, current_key_index, km_last, rotated_from>>
hunter_vars == <<hc_pc, hc_requests, hc_result, hc_status, hc_calls>>
api_vars == <<key_vars, hunter_vars>>

KeyIdle ==
    /\ keys = <<>>
    /\ current_key_index = 0
    /\ km_last = NoCall
    /\ rotated_from = {}

HunterIdle ==
    /\ hc_pc = "idle"
    /\ hc_requests = 0
    /\ hc_result = "none"
    /\ hc_status = NoResponse
    /\ hc_calls = 0

ApiIdle == KeyIdle /\ HunterIdle

pure_vars == <<extract_vars, case_vars, api_vars>>
vars == <<crawl_vars, main_vars, pure_vars>>

ExtractIdle ==
    /\ page_text = {}
    /\ cf_tag = [kind |-> "none", payload |-> <<>>]
    /\ decoded = None
    /\ emails_out = {}
    /\ ex_pc = "idle"

CaseIdle ==
    /\ cs_page = [persons |-> <<>>, matches |-> <<>>]
    /\ cs_contacts = <<>>
    /\ cs_pc = "idle"

PureIdle == ExtractIdle /\ CaseIdle /\ ApiIdle

CrawlInit ==
    /\ pc = "mode_detect"
    /\ use_playwright = FALSE
    /\ html_content = NoHtml
    /\ found_data = <<>>
    /\ visited_urls = {}
    /\ pages_crawled = 0
    /\ processed_file_urls = {}
    /\ priority_todo = <<>>
    /\ links_for_general_crawl = {}
    /\ sitemap_urls = {}
    /\ urls_to_visit = <<>>
    /\ page = "none"
    /\ session = "none"
    /\ urls_to_parse = {}
    /\ parsed_sitemaps = {}
    /\ sm_found = {}
    /\ fetch_log = <<>>
    /\ sitemap_log = <<>>
    /\ enqueue_log = <<>>
    /\ halted = FALSE
    /\ resolver_called = FALSE
    /\ probe = NoProbe
    /\ mailto_seen = FALSE
    /\ sm_outcome = {}
    /\ sm_pending = {}
    /\ sm_robots = NoRobots
    /\ linked_pages = {}
    /\ last_fetch = "none"

MainIdle ==
    /\ urls = <<>>
    /\ url_idx = 1
    /\ all_results = <<>>
    /\ crawled = <<>>
    /\ main_pc = "idle"
    /\ sort_kind = "stable"
    /\ exported = <<>>
    /\ reexported = <<>>
    /\ raw_log = <<>>

Init == CrawlInit /\ MainIdle /\ PureIdle

\* The seconds scrape_website sleeps before a page fetch: scraper.py
\* imports no time module and no loop of lines 270-303 and 329-374 waits.
SleepBefore(phase) == 0

\* One entry of fetch_log: where in scrape_website the page was fetched,
\* its URL, len(found_data) at that moment, whether the fetch was made
\* with the browser page (page.goto) or with requests (session.get), and
\* the seconds slept before it.
Fetch(phase, url) ==
    [phase |-> phase, url |-> url, contacts |-> Len(found_data),
     rendered |-> use_playwright, slept |-> SleepBefore(phase)]

\* finally: if page: page.close(); if session: session.close()
Closed(r) == IF r = "open" THEN "closed" ELSE r

\* An exception leaves scrape_website through the finally block.
Raise ==
    /\ pc' = "raised"
    /\ page' = Closed(page)
    /\ session' = Closed(session)

\* ---------------------------------------------------------- mode detection
\* Mutant of SwitchToPlaywright: the marker alone switches the mode.
SwitchToPlaywright_OnMarker(has_emails, initial_links, initial_file_links, marker) ==
    \/ (initial_links = {} /\ initial_file_links = {})
    \/ marker

\* Lines 216-223: the choice of fetch mode after a probe that succeeded
SwitchToPlaywright(has_emails, initial_links, initial_file_links, marker) ==
    \/ (initial_links = {} /\ initial_file_links = {})
    \/ (~has_emails /\ marker)

\* scrape_website up to the try block: the static probe of base_url, the
\* choice of fetch mode, the crawl's initial state, the documents the probe
\* found.
ModeDetect ==
    /\ pc = "mode_detect"
    /\ fetch_log' = Append(fetch_log, Fetch("mode", base_url))
    /\ \/ \* requests.RequestException: assume an advanced site
          /\ use_playwright' = TRUE
          /\ probe' = ProbeFailed("failed")
          /\ html_content' = NoHtml
          /\ found_data' = <<>>
          /\ processed_file_urls' = {}
          /\ page' = "open"
          /\ session' = "none"
          /\ pc' = "homepage"
       \/ \* any other exception of the probe leaves scrape_website at once
          /\ pc' = "raised"
          /\ probe' = ProbeFailed("raised")
          /\ UNCHANGED <<use_playwright, html_content, found_data,
                         processed_file_urls, page, session>>
       \/ \E anchors \in AnchorSets, plain, from_cf, marker \in BOOLEAN :
            LET initial_links == PageLinks(base_url, anchors)
                initial_file_links == FileLinks(anchors)
                \* initial_emails holds the text matches and the decoded emails
                pw == SwitchToPlaywright(plain \/ from_cf, initial_links,
                                         initial_file_links, marker)
            IN  \E prio \in PriorityLinkSets(anchors),
                   order \in Lists(initial_file_links),
                   fr \in [initial_file_links -> FileResults] :
                  LET done == ProcessFileLinks(order, fr, {}, <<>>) IN
                  /\ use_playwright' = pw
                  /\ probe' = Probed(initial_links # {}, initial_file_links # {},
                                     marker, plain, from_cf)
                  /\ html_content' = Html(prio)
                  /\ page' = IF pw THEN "open" ELSE "none"
                  /\ session' = IF pw THEN "none" ELSE "open"
                  /\ \/ /\ found_data' = done.data
                        /\ processed_file_urls' = done.processed
                        /\ pc' = "homepage"
                     \/ \* process_file_url raises at line 244 (download_file
                        \* catches requests' exceptions only, not the OSError
                        \* of os.makedirs or open): lines 241-248 stand before
                        \* the try of line 250, no finally block runs
                        /\ initial_file_links # {}
                        /\ found_data' = <<>>
                        /\ processed_file_urls' = {}
                        /\ pc' = "raised"
    /\ visited_urls' = {}
    /\ pages_crawled' = 0
    /\ UNCHANGED <<priority_todo, links_for_general_crawl, halted,
                   resolver_called, mailto_seen>>
    /\ UNCHANGED <<sm_vars, frontier_vars, trail_vars, main_vars, pure_vars>>

\* ------------------------------------------------------------- homepage
\* Lines 250-268: the homepage html and the priority links found in it.
HomepageFetch ==
    /\ pc = "homepage"
    /\ \/ /\ use_playwright
          /\ fetch_log' = Append(fetch_log, Fetch("home", base_url))
          /\ \/ \* page.goto raises: no except clause here, only finally
                /\ Raise
                /\ UNCHANGED priority_todo
             \/ \E anchors \in AnchorSets : \E prio \in PriorityLinkSets(anchors) :
                  /\ priority_todo' = Sorted(prio \cup {base_url})
                  /\ pc' = "priority"
                  /\ UNCHANGED <<page, session>>
       \/ /\ ~use_playwright
          /\ html_content.bound
          /\ priority_todo' = Sorted(html_content.prio \cup {base_url})
          /\ pc' = "priority"
          /\ UNCHANGED <<fetch_log, page, session>>
    /\ links_for_general_crawl' = {}
    \* initial_emails, initial_links: not read again
    /\ probe' = NoProbe
    /\ UNCHANGED <<use_playwright, html_content, found_data, visited_urls,
                   pages_crawled, processed_file_urls, halted, resolver_called,
                   mailto_seen>>
    /\ UNCHANGED <<sm_vars, frontier_vars, trail_vars, main_vars, pure_vars>>

\* -------------------------------------------------------- priority scan
\* Mutant of PrioritySkip: the cap is not checked in the priority scan.
PrioritySkip_NoCap(url, visited, n) == url \in visited

\* Line 271: if url in visited_urls or pages_crawled >= MAX_PAGES_PER_DOMAIN
PrioritySkip(url, visited, n) == url \in visited \/ n >= MAX_PAGES_PER_DOMAIN

\* Mutant of CountFetch: the fetch is not counted.
CountFetch_Free(n) == n

\* Lines 276 and 342: pages_crawled += 1, before the fetch is tried
CountFetch(n) == n + 1

\* Lines 288-300 and 354-365: the records one fetched page adds to
\* found_data, and the documents it marks processed.
PageYield(url, r, order, fr, processed, data) ==
    ProcessFileLinks(order, fr, processed, data \o EmailRecords(r.emails, url))

\* Lines 270-303: one iteration of the loop over sorted(list(priority_urls)).
PriorityVisit ==
    /\ pc = "priority"
    /\ priority_todo # <<>>
    /\ LET url == Head(priority_todo) IN
       /\ priority_todo' = Tail(priority_todo)
       /\ IF PrioritySkip(url, visited_urls, pages_crawled)
          THEN /\ last_fetch' = "none"
               /\ UNCHANGED <<pc, page, session, visited_urls, pages_crawled,
                              fetch_log, found_data, links_for_general_crawl,
                              processed_file_urls, mailto_seen>>
          ELSE /\ visited_urls' = visited_urls \cup {url}
               /\ pages_crawled' = CountFetch(pages_crawled)
               /\ fetch_log' = Append(fetch_log, Fetch("priority", url))
               /\ \/ \* requests.RequestException, PlaywrightError: caught
                     /\ last_fetch' = "failed"
                     /\ UNCHANGED <<pc, page, session, found_data,
                                    links_for_general_crawl, processed_file_urls,
                                    mailto_seen>>
                  \/ \* any other exception is not caught at line 302
                     /\ Raise
                     /\ last_fetch' = "raised"
                     /\ UNCHANGED <<found_data, links_for_general_crawl,
                                    processed_file_urls, mailto_seen>>
                  \/ \E r \in PageResponses, mailto \in BOOLEAN :
                     \E order \in Lists(FileLinks(r.anchors)),
                        fr \in [FileLinks(r.anchors) \ processed_file_urls -> FileResults] :
                       \* r.emails are the matches in soup.get_text() (line 40):
                       \* the href of a mailto anchor is no part of that text
                       LET y == PageYield(url, r, order, fr, processed_file_urls, found_data) IN
                       /\ mailto_seen' = (mailto_seen \/ mailto)
                       /\ last_fetch' = "ok"
                       /\ found_data' = y.data
                       /\ processed_file_urls' = y.processed
                       /\ links_for_general_crawl' =
                              links_for_general_crawl \cup PageLinks(url, r.anchors)
                       /\ UNCHANGED <<pc, page, session>>
    /\ UNCHANGED <<use_playwright, html_content, halted, resolver_called, probe,
                   linked_pages>>
    /\ UNCHANGED <<sm_vars, frontier_vars, main_vars, pure_vars>>

\* Mutant of HaltNow: the halt looks at the names, not at the emails.
HaltNow_ByName(data) == \E i \in 1..Len(data) : data[i].name # ""

\* Line 307: any(item['email'] for item in found_data)
HaltNow(data) == \E i \in 1..Len(data) : data[i].email # ""

\* Lines 305-309: return at once when the priority scan collected an email.
HaltCheck ==
    /\ pc = "priority"
    /\ priority_todo = <<>>
    /\ IF HaltNow(found_data)
       THEN /\ pc' = "returned"
            /\ halted' = TRUE
            /\ page' = Closed(page)
            /\ session' = Closed(session)
       ELSE /\ pc' = "robots"
            /\ UNCHANGED <<halted, page, session>>
    \* the pages of the priority scan are not looked at again
    /\ mailto_seen' = FALSE
    /\ last_fetch' = "none"
    /\ UNCHANGED <<use_playwright, html_content, found_data, visited_urls,
                   pages_crawled, processed_file_urls, priority_todo,
                   links_for_general_crawl, fetch_log, resolver_called, probe,
                   linked_pages>>
    /\ UNCHANGED <<sm_vars, frontier_vars, main_vars, pure_vars>>

\* ------------------------------------------------------ get_sitemap_urls
SitemapDocs == 1..NSitemaps
\* urljoin(base_url, '/sitemap.xml')
DefaultSitemap == CHOOSE s \in SitemapDocs : \A t \in SitemapDocs : s <= t
LocSets == {S \in SUBSET URLS : Cardinality(S) <= MaxLocs}

\* Mutant of StartSitemaps: /sitemap.xml is parsed in every case.
StartSitemaps_WithDefault(outcome, directives) ==
    (IF outcome = "ok" THEN directives ELSE {}) \cup {DefaultSitemap}

\* Lines 104-113: the Sitemap: targets of a robots.txt that came with status
\* 200, or /sitemap.xml when there is none.
StartSitemaps(outcome, directives) ==
    LET named == IF outcome = "ok" THEN directives ELSE {}
    IN  IF named = {} THEN {DefaultSitemap} ELSE named

\* Lines 81-113: robots.txt and its Sitemap: lines.
RobotsFetch ==
    /\ pc = "robots"
    /\ \E directives \in SUBSET SitemapDocs, outcome \in {"error", "status", "ok"} :
         /\ outcome = "error" => directives = {}       \* no content at all
         /\ urls_to_parse' = StartSitemaps(outcome, directives)
         /\ sm_robots' = Robots(outcome, directives)
    /\ sm_pending' = urls_to_parse'
    /\ sm_outcome' = {}
    /\ parsed_sitemaps' = {}
    /\ sm_found' = {}
    /\ pc' = "sitemap_loop"
    /\ UNCHANGED <<use_playwright, html_content, found_data, visited_urls,
                   pages_crawled, processed_file_urls, priority_todo,
                   links_for_general_crawl, page, session, fetch_log,
                   sitemap_log, halted, probe, mailto_seen, trail_vars>>
    /\ resolver_called' = TRUE
    /\ UNCHANGED <<frontier_vars, main_vars, pure_vars>>

\* Mutant of SitemapSkip: a parsed sitemap is parsed again.
SitemapSkip_Never(sitemap_url, parsed) == FALSE

\* Line 118: if sitemap_url in parsed_sitemaps: continue
SitemapSkip(sitemap_url, parsed) == sitemap_url \in parsed

\* Mutant of SkipSitemap: a failed sitemap ends the loop (break).
SkipSitemap_Break(rest) == {}

\* Lines 141-142 and 161-164: a sitemap that failed is skipped and the loop
\* goes on with the URLs that are left.
SkipSitemap(rest) == rest

\* One entry of sm_outcome
SitemapGave(sitemap_url, kind, nested, locs) ==
    [url |-> sitemap_url, kind |-> kind, nested |-> nested, locs |-> locs]

\* Lines 116-164: one iteration of while urls_to_parse.
SitemapLoop ==
    /\ pc = "sitemap_loop"
    /\ urls_to_parse # {}
    /\ \E sitemap_url \in urls_to_parse :            \* urls_to_parse.pop()
         LET rest == urls_to_parse \ {sitemap_url} IN
         IF SitemapSkip(sitemap_url, parsed_sitemaps)
         THEN /\ urls_to_parse' = rest
              /\ UNCHANGED <<parsed_sitemaps, sm_found, sitemap_log, sm_outcome,
                             sm_pending>>
         ELSE /\ parsed_sitemaps' = parsed_sitemaps \cup {sitemap_url}
              /\ sitemap_log' = Append(sitemap_log, sitemap_url)
              /\ \/ \* status != 200 (line 142), or an exception (lines 161-164)
                    /\ urls_to_parse' = SkipSitemap(rest)
                    /\ sm_outcome' = sm_outcome \cup {SitemapGave(sitemap_url, "failed", {}, {})}
                    /\ UNCHANGED <<sm_found, sm_pending>>
                 \/ \* a sitemap index: the <loc> of each <sitemap>
                    \E nested \in SUBSET SitemapDocs :
                      /\ urls_to_parse' = rest \cup nested
                      /\ sm_outcome' = sm_outcome \cup {SitemapGave(sitemap_url, "index", nested, {})}
                      /\ sm_pending' = sm_pending \cup nested
                      /\ UNCHANGED sm_found
                 \/ \* a standard sitemap: the <loc> of each <url>
                    \E locs \in LocSets :
                      /\ urls_to_parse' = rest
                      /\ sm_found' = sm_found \cup locs
                      /\ sm_outcome' = sm_outcome \cup {SitemapGave(sitemap_url, "urlset", {}, locs)}
                      /\ UNCHANGED sm_pending
    /\ UNCHANGED <<pc, use_playwright, html_content, found_data, visited_urls,
                   pages_crawled, processed_file_urls, priority_todo,
                   links_for_general_crawl, page, session, fetch_log, halted,
                   resolver_called, probe, mailto_seen, sm_robots, trail_vars>>
    /\ UNCHANGED <<frontier_vars, main_vars, pure_vars>>

\* Line 319: set(sitemap_urls) if sitemap_urls else links_for_general_crawl
FrontierSeed(from_sitemap, from_links) ==
    IF from_sitemap # {} THEN from_sitemap ELSE from_links

\* Lines 166-167 and 319-325: the resolver returns and the frontier is seeded.
SitemapReturn ==
    /\ pc = "sitemap_loop"
    /\ urls_to_parse = {}
    /\ sitemap_urls' = sm_found
    /\ \E q \in Lists(FrontierSeed(sm_found, links_for_general_crawl) \ visited_urls) :
         /\ urls_to_visit' = q
         /\ enqueue_log' = q
    /\ pc' = "main_crawl"
    \* the resolver's locals end with the call
    /\ parsed_sitemaps' = {}
    /\ sm_found' = {}
    /\ sitemap_log' = <<>>
    /\ sm_outcome' = {}
    /\ sm_pending' = {}
    /\ sm_robots' = NoRobots
    /\ UNCHANGED <<use_playwright, html_content, found_data, visited_urls,
                   pages_crawled, processed_file_urls, priority_todo,
                   links_for_general_crawl, page, session, fetch_log, halted,
                   urls_to_parse, resolver_called, probe, mailto_seen,
                   trail_vars>>
    /\ UNCHANGED <<main_vars, pure_vars>>

\* ------------------------------------------------------------ main crawl
\* Mutant of MainLoopCond: off by one, the loop ends one page early.
MainLoopCond_OneShort(queue, n) == queue # <<>> /\ n + 1 < MAX_PAGES_PER_DOMAIN

\* Line 329: while urls_to_visit and pages_crawled < MAX_PAGES_PER_DOMAIN
MainLoopCond(queue, n) == queue # <<>> /\ n < MAX_PAGES_PER_DOMAIN

\* Lines 335-338: only pages within the original domain
OffDomain(url) == DropWww(Netloc(url)) # DropWww(Netloc(base_url))

\* Lines 367-371: the links one fetched page appends to urls_to_visit
RECURSIVE NotVisited(_, _)
NotVisited(links, visited) ==
    IF links = <<>> THEN <<>>
    ELSE (IF Head(links) \in visited THEN <<>> ELSE <<Head(links)>>)
         \o NotVisited(Tail(links), visited)
\* Mutants of NewLinks: links are followed in sitemap mode too; visited
\* links are enqueued again.
NewLinks_InSitemapMode(from_sitemap, links, visited) == NotVisited(links, visited)
NewLinks_Unfiltered(from_sitemap, links, visited) ==
    IF from_sitemap # {} THEN <<>> ELSE links
NewLinks(from_sitemap, links, visited) ==
    IF from_sitemap # {} THEN <<>> ELSE NotVisited(links, visited)

\* The pages of the crawled domain, as lines 335-337 compare domains, among
\* the anchors of a page: fragment stripped, documents left out.
LinkedPages(anchors) ==
    {StripFragment(a) : a \in {b \in anchors : ~IsDocument(b) /\ ~OffDomain(b)}}

\* Lines 329-374: one iteration of the main crawl loop.
MainCrawlStep ==
    /\ pc = "main_crawl"
    /\ MainLoopCond(urls_to_visit, pages_crawled)
    /\ LET current_url == Head(urls_to_visit)
           rest == Tail(urls_to_visit)
       IN
       IF current_url \in visited_urls \/ OffDomain(current_url)
       THEN /\ urls_to_visit' = rest
            /\ last_fetch' = "none"
            /\ UNCHANGED <<pc, page, session, visited_urls, pages_crawled,
                           fetch_log, found_data, processed_file_urls,
                           enqueue_log, linked_pages>>
       ELSE /\ visited_urls' = visited_urls \cup {current_url}
            /\ pages_crawled' = CountFetch(pages_crawled)
            /\ fetch_log' = Append(fetch_log, Fetch("main", current_url))
            /\ \/ \* requests.RequestException, PlaywrightError: caught
                  /\ urls_to_visit' = rest
                  /\ last_fetch' = "failed"
                  /\ UNCHANGED <<pc, page, session, found_data,
                                 processed_file_urls, enqueue_log, linked_pages>>
               \/ \* any other exception is not caught at line 373
                  /\ Raise
                  /\ urls_to_visit' = rest
                  /\ last_fetch' = "raised"
                  /\ linked_pages' = {}
                  /\ UNCHANGED <<found_data, processed_file_urls, enqueue_log>>
               \/ \E r \in PageResponses :
                  \E order \in Lists(FileLinks(r.anchors)),
                     fr \in [FileLinks(r.anchors) \ processed_file_urls -> FileResults],
                     links \in Lists(PageLinks(current_url, r.anchors)) :
                    LET y == PageYield(current_url, r, order, fr,
                                       processed_file_urls, found_data)
                        new == NewLinks(sitemap_urls, links, visited_urls')
                    IN
                    /\ found_data' = y.data
                    /\ processed_file_urls' = y.processed
                    /\ urls_to_visit' = rest \o new
                    /\ enqueue_log' = enqueue_log \o new
                    /\ last_fetch' = "ok"
                    /\ linked_pages' = IF sitemap_urls = {}
                                       THEN linked_pages \cup LinkedPages(r.anchors)
                                       ELSE linked_pages
                    /\ UNCHANGED <<pc, page, session>>
    /\ UNCHANGED <<use_playwright, html_content, priority_todo,
                   links_for_general_crawl, sitemap_urls, halted,
                   resolver_called, probe, mailto_seen>>
    /\ UNCHANGED <<sm_vars, main_vars, pure_vars>>

\* Lines 376-382: the loop ends, finally closes, found_data is returned.
MainCrawlExit ==
    /\ pc = "main_crawl"
    /\ ~MainLoopCond(urls_to_visit, pages_crawled)
    /\ pc' = "returned"
    /\ page' = Closed(page)
    /\ session' = Closed(session)
    \* the pages of the main crawl are not looked at again
    /\ linked_pages' = {}
    /\ last_fetch' = "none"
    /\ UNCHANGED <<use_playwright, html_content, found_data, visited_urls,
                   pages_crawled, processed_file_urls, priority_todo,
                   links_for_general_crawl, fetch_log, halted, resolver_called,
                   probe, mailto_seen>>
    /\ UNCHANGED <<sm_vars, frontier_vars, main_vars, pure_vars>>

Next ==
    \/ ModeDetect
    \/ HomepageFetch
    \/ PriorityVisit
    \/ HaltCheck
    \/ RobotsFetch
    \/ SitemapLoop
    \/ SitemapReturn
    \/ MainCrawlStep
    \/ MainCrawlExit

\* One call of scrape_website(base_url, browser).
Spec == Init /\ [][Next]_vars

\* ------------------------------------------- get_sitemap_urls on its own
\* One call of get_sitemap_urls(base_url, session=...) or (browser=...).
SitemapInit ==
    /\ pc = "robots"
    /\ use_playwright \in BOOLEAN
    /\ html_content = NoHtml
    /\ found_data = <<>>
    /\ visited_urls = {}
    /\ pages_crawled = 0
    /\ processed_file_urls = {}
    /\ priority_todo = <<>>
    /\ links_for_general_crawl = {}
    /\ sitemap_urls = {}
    /\ urls_to_visit = <<>>
    /\ page = IF use_playwright THEN "open" ELSE "none"
    /\ session = IF use_playwright THEN "none" ELSE "open"
    /\ urls_to_parse = {}
    /\ parsed_sitemaps = {}
    /\ sm_found = {}
    /\ fetch_log = <<>>
    /\ sitemap_log = <<>>
    /\ enqueue_log = <<>>
    /\ halted = FALSE
    /\ resolver_called = FALSE
    /\ probe = NoProbe
    /\ mailto_seen = FALSE
    /\ sm_outcome = {}
    /\ sm_pending = {}
    /\ sm_robots = NoRobots
    /\ linked_pages = {}
    /\ last_fetch = "none"
    /\ MainIdle
    /\ PureIdle

SitemapNext == RobotsFetch \/ SitemapLoop \/ SitemapReturn

\* The loop of get_sitemap_urls is sequential code: it keeps running.
SitemapSpec == SitemapInit /\ [][SitemapNext]_vars /\ WF_vars(SitemapNext)

\* ----------------------------------------------------------------- main()
Domains == {"example.com", "other.org"}
HomeOf(d) == <<d, 0, "">>
DocOf(d) == <<d, DocPath, "">>

\* The emails of main()'s results: EMAIL_REGEX matches both cases and
\* scraper.py never changes the case of a match.
FoundEmails == {"a@x.org", "A@x.org"}
\* names_str of a document: ", ".join(file_names)
FileNames == {"Al", "Jane Doe"}

\* What scrape_website hands back to main(): found_data of at most
\* MaxRecords records, from a page (name '') or from a document.
RecordsOf(d) ==
    [email : FoundEmails, name : {""}, source : {HomeOf(d)}] \cup
    [email : FoundEmails, name : FileNames, source : {DocOf(d)}]
ScrapeReturns(d) == UNION {[1..n -> RecordsOf(d)] : n \in 0..MaxRecords}

\* The confidence label of a ContactCandidate (spec 3: high, medium or
\* low, set by the heuristic that produced it).
Confidences == {"high", "low"}

\* Lines 407-421: the rows one domain adds to all_results
Rows(d, scraped_data) ==
    IF scraped_data # <<>>
    THEN [i \in 1..Len(scraped_data) |->
            [Website |-> d, Found_Email |-> scraped_data[i].email,
             Found_Name |-> scraped_data[i].name,
             Source_URL |-> scraped_data[i].source]]
    ELSE << [Website |-> d, Found_Email |-> "No email found",
             Found_Name |-> "", Source_URL |-> HomeOf(d)] >>

\* Line 438: df['Found_Name'].str.len()
NameLen(name) == Len(name)

\* Line 439: sort_values(by='name_len', ascending=False) with the default
\* kind='quicksort', which promises no order among equal keys: a build
\* either keeps their order or (one other outcome) reverses it.
SortKinds == {"stable", "reversed"}
RemoveAt(rows, i) == SubSeq(rows, 1, i - 1) \o SubSeq(rows, i + 1, Len(rows))
RECURSIVE SortByNameLen(_, _)
SortByNameLen(rows, kind) ==
    IF rows = <<>> THEN <<>>
    ELSE LET longest == {i \in 1..Len(rows) :
                            \A j \in 1..Len(rows) :
                                NameLen(rows[j].Found_Name) <= NameLen(rows[i].Found_Name)}
             i == IF kind = "stable"
                  THEN CHOOSE k \in longest : \A j \in longest : k <= j
                  ELSE CHOOSE k \in longest : \A j \in longest : k >= j
         IN  <<rows[i]>> \o SortByNameLen(RemoveAt(rows, i), kind)

\* subset=['Website', 'Found_Email']
DedupKey(row) == <<row.Website, row.Found_Email>>

RECURSIVE KeepRows(_, _, _)
KeepRows(rows, keep, i) ==
    IF i > Len(rows) THEN <<>>
    ELSE (IF i \in keep THEN <<rows[i]>> ELSE <<>>) \o KeepRows(rows, keep, i + 1)

\* Mutant of DropDuplicates: a row is compared with the row before it only.
DropDuplicates_Adjacent(rows) ==
    KeepRows(rows, {i \in 1..Len(rows) : i = 1 \/ DedupKey(rows[i - 1]) # DedupKey(rows[i])}, 1)

\* Line 442: drop_duplicates(subset=[...]) keeps the first row of each key
DropDuplicates(rows) ==
    KeepRows(rows, {i \in 1..Len(rows) :
                       \A j \in 1..(i - 1) : DedupKey(rows[j]) # DedupKey(rows[i])}, 1)

\* Lines 437-442: the sort-by-name-length and drop-duplicates step
Dedup(rows, kind) == DropDuplicates(SortByNameLen(rows, kind))

MainInit ==
    /\ CrawlInit
    /\ urls \in UNION {[1..n -> Domains] : n \in 1..MaxUrls}
    /\ url_idx = 1
    /\ all_results = <<>>
    /\ crawled = <<>>
    /\ main_pc = "loop"
    /\ sort_kind \in SortKinds
    /\ exported = <<>>
    /\ reexported = <<>>
    /\ raw_log = <<>>
    /\ PureIdle

\* One entry of raw_log: the domain, how its crawl ended ("raised",
\* "failed": every fetch failed and was caught, "nothing", "contacts") and
\* the records it returned, each with its confidence label.
Crawl(d, outcome, scraped_data, conf) ==
    [domain |-> d, outcome |-> outcome,
     items |-> [i \in 1..Len(scraped_data) |->
                   [email |-> scraped_data[i].email, name |-> scraped_data[i].name,
                    source |-> scraped_data[i].source, confidence |-> conf[i]]]]

\* Lines 401-421: one iteration of for base_url in urls.  scrape_website
\* either returns found_data or lets an exception through (pc = "raised"
\* in Spec); main() has no handler around the call.
ScrapeDomain ==
    /\ main_pc = "loop"
    /\ url_idx <= Len(urls)
    /\ LET d == urls[url_idx] IN
       /\ crawled' = Append(crawled, d)
       /\ \/ /\ main_pc' = "aborted"
             /\ raw_log' = Append(raw_log, Crawl(d, "raised", <<>>, <<>>))
             /\ UNCHANGED <<all_results, url_idx>>
          \/ \E scraped_data \in ScrapeReturns(d) :
             \E conf \in [1..Len(scraped_data) -> Confidences],
                outcome \in {"failed", "nothing", "contacts"} :
               /\ (outcome = "contacts") <=> (scraped_data # <<>>)
               /\ all_results' = all_results \o Rows(d, scraped_data)
               /\ raw_log' = Append(raw_log, Crawl(d, outcome, scraped_data, conf))
               /\ url_idx' = url_idx + 1
               /\ UNCHANGED main_pc
    /\ UNCHANGED <<urls, sort_kind, exported, reexported, crawl_vars, pure_vars>>

\* Line 423: the loop is over, the browser is closed.
LoopDone ==
    /\ main_pc = "loop"
    /\ url_idx > Len(urls)
    /\ main_pc' = "export"
    /\ UNCHANGED <<urls, url_idx, all_results, crawled, sort_kind, exported,
                   reexported, raw_log, crawl_vars, pure_vars>>

\* Lines 425-446: results.csv is written, unless there is no row at all.
Export ==
    /\ main_pc = "export"
    /\ exported' = IF all_results # <<>> THEN Dedup(all_results, sort_kind) ELSE <<>>
    /\ main_pc' = "done"
    /\ UNCHANGED <<urls, url_idx, all_results, crawled, sort_kind, reexported,
                   raw_log, crawl_vars, pure_vars>>

MainNext == ScrapeDomain \/ LoopDone \/ Export

\* One run of main() over urls.txt.
MainSpec == MainInit /\ [][MainNext]_vars

\* ------------------------------------------ the export step on its own
\* Every row main() can put in all_results.
ResultRows ==
    UNION {{Rows(d, <<rec>>)[1] : rec \in RecordsOf(d)} \cup {Rows(d, <<>>)[1]} : d \in Domains}

DedupInit ==
    /\ CrawlInit
    /\ urls = <<>>
    /\ url_idx = 1
    /\ all_results \in UNION {[1..n -> ResultRows] : n \in 1..MaxRows}
    /\ crawled = <<>>
    /\ main_pc = "export"
    /\ sort_kind \in SortKinds
    /\ exported = <<>>
    /\ reexported = <<>>
    /\ raw_log = <<>>
    /\ PureIdle

\* The step of lines 437-442 applied to the table it produced.
Reapply ==
    /\ main_pc = "done"
    /\ reexported' = Dedup(exported, sort_kind)
    /\ main_pc' = "again"
    /\ UNCHANGED <<urls, url_idx, all_results, crawled, sort_kind, exported,
                   raw_log, crawl_vars, pure_vars>>

DedupNext == Export \/ Reapply

DedupSpec == DedupInit /\ [][DedupNext]_vars

\* ------------------------- parse_html_for_emails_and_links: the emails
ExtractInit ==
    /\ CrawlInit
    /\ MainIdle
    /\ CaseIdle
    /\ ApiIdle
    /\ page_text \in SUBSET TextMatches
    /\ cf_tag \in CfTags
    /\ decoded = None
    /\ emails_out = {}
    /\ ex_pc = "parse"

\* Lines 39-56: the regex matches that pass the extension filter, and the
\* decoded email of the protected tag when decode_cf_email gives one.
ParseEmails ==
    /\ ex_pc = "parse"
    /\ LET decoded_email == IF cf_tag.kind = "none" \/ (cf_tag.kind = "span" /\ cf_tag.payload = <<>>)
                            THEN None
                            ELSE decode_cf_email(cf_tag.payload)
       IN  /\ decoded' = decoded_email
           /\ emails_out' = {m \in page_text : KeepMatch(m)} \cup
                            (IF ~decoded_email.none /\ decoded_email.text # <<>>
                             THEN {decoded_email.text} ELSE {})
    /\ ex_pc' = "parsed"
    /\ UNCHANGED <<page_text, cf_tag, crawl_vars, main_vars, case_vars, api_vars>>

ExtractNext == ParseEmails

ExtractSpec == ExtractInit /\ [][ExtractNext]_vars

\* ----------------------------------- find_contacts_on_case_study_page
CaseInit ==
    /\ CrawlInit
    /\ MainIdle
    /\ ExtractIdle
    /\ ApiIdle
    /\ cs_page \in [persons : PersonLists, matches : MatchLists]
    /\ cs_contacts = <<>>
    /\ cs_pc = "analyze"

\* Lines 201-226.  all_emails is list(set(...)) (line 39): its order is
\* whatever the set gives.
CaseStudyPage ==
    /\ cs_pc = "analyze"
    /\ \E all_emails \in Lists(ExtractedEmails(cs_page.matches)) :
         LET found_persons == cs_page.persons IN
         cs_contacts' =
            IF found_persons # <<>> /\ all_emails # <<>>
            THEN [i \in 1..Len(found_persons) |->
                    [email |-> all_emails[1], name |-> found_persons[i].name,
                     title |-> found_persons[i].title, confidence |-> "low"]]
            ELSE <<>>
    /\ cs_pc' = "analyzed"
    /\ UNCHANGED <<cs_page, crawl_vars, main_vars, extract_vars, api_vars>>

CaseNext == CaseStudyPage

CaseSpec == CaseInit /\ [][CaseNext]_vars

\* --------------------------------------------------------- ApiKeyManager
KeyInit ==
    /\ CrawlInit
    /\ MainIdle
    /\ ExtractIdle
    /\ CaseIdle
    /\ HunterIdle
    /\ keys \in KeyLists
    /\ current_key_index = 0
    /\ km_last = NoCall
    /\ rotated_from = {}

\* api_key_manager.py lines 23-32
GetKey ==
    /\ km_last' = GotKey(get_key(keys, current_key_index))
    /\ UNCHANGED <<keys, current_key_index, rotated_from, hunter_vars,
                   crawl_vars, main_vars, extract_vars, case_vars>>

\* Lines 34-47.  The model follows the index up to one past MaxKeys.
RotateKey ==
    /\ current_key_index <= MaxKeys
    /\ current_key_index' = RotateIndex(current_key_index)
    /\ rotated_from' = rotated_from \cup {current_key_index}
    /\ km_last' = Rotated(rotate_key(keys, current_key_index'))
    /\ UNCHANGED <<keys, hunter_vars, crawl_vars, main_vars, extract_vars,
                   case_vars>>

KeyNext == GetKey \/ RotateKey

\* Any sequence of get_key and rotate_key calls on one ApiKeyManager.
KeySpec == KeyInit /\ [][KeyNext]_vars

\* --------------------------------------------------- get_hunter_contacts
HunterInit ==
    /\ CrawlInit
    /\ MainIdle
    /\ ExtractIdle
    /\ CaseIdle
    /\ HunterIdle
    /\ keys \in KeyLists
    /\ current_key_index = 0
    /\ km_last = NoCall
    /\ rotated_from = {}

\* get_hunter_contacts(domain, api_key_manager) is called.
HunterCall ==
    /\ hc_pc \in {"idle", "returned"}
    /\ hc_calls < MaxCalls
    /\ hc_calls' = hc_calls + 1
    /\ hc_pc' = "loop"
    /\ hc_requests' = 0
    /\ hc_result' = "none"
    /\ hc_status' = NoResponse
    /\ UNCHANGED <<key_vars, crawl_vars, main_vars, extract_vars, case_vars>>

\* hunter_client.py lines 17-64: one iteration of while True.
HunterIteration ==
    /\ hc_pc = "loop"
    /\ LET api_key == get_key(keys, current_key_index) IN
       IF api_key.none \/ api_key.key = ""                 \* if not api_key
       THEN /\ hc_pc' = "returned"
            /\ hc_result' = "empty"
            /\ hc_status' = NoResponse
            /\ UNCHANGED <<hc_requests, current_key_index, rotated_from>>
       ELSE \E response \in HunterResponses :
            /\ hc_requests' = hc_requests + 1
            /\ hc_status' = response
            /\ IF response.body # "exception" /\ ShouldRotate(response.status)
               THEN /\ current_key_index' = RotateIndex(current_key_index)
                    /\ rotated_from' = rotated_from \cup {current_key_index}
                    /\ IF rotate_key(keys, current_key_index')
                       THEN UNCHANGED <<hc_pc, hc_result>>      \* continue
                       ELSE hc_pc' = "returned" /\ hc_result' = "empty"
               ELSE /\ hc_pc' = "returned"
                    /\ hc_result' = IF response.status = 200 /\ response.body = "emails"
                                    THEN "contacts" ELSE "empty"
                    /\ UNCHANGED <<current_key_index, rotated_from>>
    /\ UNCHANGED <<keys, km_last, hc_calls, crawl_vars, main_vars, extract_vars,
                   case_vars>>

HunterNext == HunterCall \/ HunterIteration

\* Calls of get_hunter_contacts on one manager; the loop of a call is
\* sequential code and keeps running.
HunterSpec == HunterInit /\ [][HunterNext]_vars /\ WF_vars(HunterIteration)

\* ================================================================ claims
NoDuplicates(q) == \A i, j \in 1..Len(q) : q[i] = q[j] => i = j
HasEmail(data) == \E i \in 1..Len(data) : data[i].email # ""
FetchesIn(phases) == {i \in 1..Len(fetch_log) : fetch_log[i].phase \in phases}
CrawlFetches == Cardinality(FetchesIn({"priority", "main"}))

\* C1: when the priority scan ends with a record whose email is non-empty,
\* scrape_website returns at once: get_sitemap_urls is never called and the
\* main crawl fetches nothing.
C1_HaltSkipsSitemap ==
    /\ [][(pc = "priority" /\ priority_todo = <<>> /\ HasEmail(found_data))
            => (pc' = "returned" /\ ~resolver_called')]_vars
    /\ [](halted => /\ pc = "returned"
                    /\ ~resolver_called
                    /\ FetchesIn({"main"}) = {}
                    /\ urls_to_visit = <<>>)
\* C1 witness: the crawl returned from the halt check with an email found.
C1_Witness == halted /\ pc = "returned" /\ HasEmail(found_data)

\* C2 (as claimed): over mode detection, homepage fetch, priority scan and
\* main crawl, no two fetches have the same URL after fragment stripping.
C2_NoUrlFetchedTwice ==
    \A i, j \in 1..Len(fetch_log) :
        StripFragment(fetch_log[i].url) = StripFragment(fetch_log[j].url) => i = j

\* C3 (as claimed): the frontier holds no URL twice and no URL is enqueued
\* a second time.
C3_NoUrlEnqueuedTwice == NoDuplicates(urls_to_visit) /\ NoDuplicates(enqueue_log)
\* C3 (amended): a URL enters visited_urls when it is dequeued and fetched;
\* no URL is enqueued while it is in visited_urls, and no URL is fetched
\* twice by the priority scan and the main crawl (the frontier itself may
\* hold a URL more than once).
C3_EnqueueOnlyUnvisited ==
    /\ [][\A i \in (Len(enqueue_log) + 1)..Len(enqueue_log') :
              enqueue_log'[i] \notin visited_urls']_vars
    /\ [](\A i, j \in FetchesIn({"priority", "main"}) :
              fetch_log[i].url = fetch_log[j].url => i = j)
    /\ [](visited_urls = {fetch_log[i].url : i \in FetchesIn({"priority", "main"})})
\* C3 witness: the frontier holds one URL twice.
C3_Witness == pc = "main_crawl" /\ ~NoDuplicates(urls_to_visit)

\* C4: pages_crawled never exceeds MAX_PAGES_PER_DOMAIN and counts every
\* fetch of the priority scan and of the main crawl, so that no such fetch
\* is made once the cap is reached.
C4_PageCap ==
    /\ pages_crawled <= MAX_PAGES_PER_DOMAIN
    /\ CrawlFetches = pages_crawled
\* C4 witness: the cap is reached while priority URLs are still waiting.
C4_Witness ==
    pc = "priority" /\ priority_todo # <<>> /\ pages_crawled = MAX_PAGES_PER_DOMAIN

\* The crawl returned from the main crawl of a site that gave no contact
\* and has pages left that the crawl would still fetch.
BarrenSiteNotExhausted ==
    /\ pc = "returned"
    /\ ~halted
    /\ found_data = <<>>
    /\ \E i \in 1..Len(urls_to_visit) :
         urls_to_visit[i] \notin visited_urls /\ ~OffDomain(urls_to_visit[i])

\* C5 (as claimed): on such a site the main crawl alone fetches exactly
\* MAX_PAGES_PER_DOMAIN pages, the priority scan's fetches not counted.
C5_CapOnMainCrawlOnly ==
    BarrenSiteNotExhausted => Cardinality(FetchesIn({"main"})) = MAX_PAGES_PER_DOMAIN
\* C5 (amended): on such a site the priority scan and the main crawl
\* together fetch exactly MAX_PAGES_PER_DOMAIN pages.
C5_CapOnWholeCrawl ==
    BarrenSiteNotExhausted =>
        /\ CrawlFetches = MAX_PAGES_PER_DOMAIN
        /\ FetchesIn({"priority"}) # {}
        /\ Cardinality(FetchesIn({"main"})) < MAX_PAGES_PER_DOMAIN
\* C5 witness: such a crawl, with fetches in the main crawl.
C5_Witness == BarrenSiteNotExhausted /\ FetchesIn({"main"}) # {}

\* C6 (as claimed, for the main crawl loop the claim cites): no URL is
\* fetched by the main crawl once found_data holds more than
\* ContactThreshold records.
C6_StopsPastThreshold ==
    \A i \in FetchesIn({"main"}) : fetch_log[i].contacts <= ContactThreshold

\* C7: get_sitemap_urls terminates, also on sitemap indexes that name
\* themselves or each other, and fetches no sitemap URL twice.
C7_ResolverTerminates ==
    /\ [](NoDuplicates(sitemap_log))
    /\ [](Range(sitemap_log) = parsed_sitemaps)
    /\ <>(pc = "main_crawl")
\* C7 witness: an index named a sitemap that was already parsed.
C7_Witness == pc = "sitemap_loop" /\ urls_to_parse \cap parsed_sitemaps # {}

\* C8: when the resolver returned URLs, the frontier holds sitemap URLs
\* only and never grows: every URL ever enqueued, and every URL the main
\* crawl fetches, is one of the seeded sitemap URLs.
C8_SitemapFrontierClosed ==
    sitemap_urls # {} =>
        /\ Range(enqueue_log) \subseteq sitemap_urls
        /\ NoDuplicates(enqueue_log)
        /\ Range(urls_to_visit) \subseteq Range(enqueue_log)
        /\ \A i \in FetchesIn({"main"}) : fetch_log[i].url \in Range(enqueue_log)
\* C8 witness: two pages were fetched from a sitemap frontier.
C8_Witness == sitemap_urls # {} /\ Cardinality(FetchesIn({"main"})) >= 2

\* C9 (as claimed): no failure of a fetch of the crawl (homepage, priority
\* scan, main crawl) makes scrape_website raise.
C9_NoFetchFailureEscapes ==
    ~(/\ pc = "raised"
      /\ fetch_log # <<>>
      /\ fetch_log[Len(fetch_log)].phase \in {"home", "priority", "main"})

\* C10 (as claimed): whatever happens inside one domain's scrape_website
\* call, main() goes on to crawl every other domain of the input.
C10_EveryDomainCrawled ==
    main_pc \in {"aborted", "export"} => Len(crawled) = Len(urls)

\* ------------------------------------------------------ export (C11-C14)
NoEmailFound == "No email found"
\* Case-insensitive normalisation of the emails of MainSpec
Lower(s) == IF s = "A@x.org" THEN "a@x.org" ELSE s
\* The records the crawls of domain d returned, with their labels.
ItemsOf(d) ==
    UNION {Range(raw_log[k].items) : k \in {n \in 1..Len(raw_log) : raw_log[n].domain = d}}
OutcomesOf(d) == {raw_log[k].outcome : k \in {n \in 1..Len(raw_log) : raw_log[n].domain = d}}
MarkerRows(d) ==
    {k \in 1..Len(exported) :
        exported[k].Website = d /\ exported[k].Found_Email = NoEmailFound}

\* C11 (as claimed): results.csv holds at most one row per domain and
\* email, two emails being the same when they are equal after lower-casing.
C11_OneRecordPerEmail ==
    main_pc = "done" =>
        \A i, j \in 1..Len(exported) :
            (/\ exported[i].Website = exported[j].Website
             /\ Lower(exported[i].Found_Email) = Lower(exported[j].Found_Email))
                => i = j

ConfidenceRank(c) == IF c = "high" THEN 2 ELSE 1
\* The merge rule of spec 4.6: o beats i.
Beats(o, i) ==
    \/ ConfidenceRank(o.confidence) > ConfidenceRank(i.confidence)
    \/ /\ o.confidence = i.confidence
       /\ o.name # ""
       /\ (i.name = "" \/ NameLen(o.name) > NameLen(i.name))
\* C12 (as claimed): the row kept for an email of a domain comes from a raw
\* record that no other raw record of that domain and email beats: none has
\* a higher confidence, nor the same confidence and a non-empty name where
\* the kept one has none, or a longer name.
C12_KeepsHighestConfidence ==
    main_pc = "done" =>
        \A k \in 1..Len(exported) :
            exported[k].Found_Email # NoEmailFound =>
                \E i \in ItemsOf(exported[k].Website) :
                    /\ i.email = exported[k].Found_Email
                    /\ i.name = exported[k].Found_Name
                    /\ i.source = exported[k].Source_URL
                    /\ \A o \in ItemsOf(exported[k].Website) :
                           o.email = i.email => ~Beats(o, i)

\* C13: the export step applied to its own output returns the same
\* records, none dropped and none added, whatever order the build's sort
\* gives to names of equal length.
C13_DedupIdempotent ==
    main_pc = "again" =>
        /\ Range(reexported) = Range(exported)
        /\ Len(reexported) = Len(exported)
\* C13 witness: the step was applied to a table from which it had dropped
\* a duplicate and in which two names have the same length.
C13_Witness ==
    /\ main_pc = "again"
    /\ Len(exported) < Len(all_results)
    /\ \E i, j \in 1..Len(exported) :
          i # j /\ NameLen(exported[i].Found_Name) = NameLen(exported[j].Found_Name)

\* C14 (as claimed): in the rows main() writes, a domain whose crawl found
\* nothing has exactly one marker row, a domain all of whose crawls
\* returned contacts has none, and a domain whose crawl failed has no
\* marker row, so that the marker tells "nothing found" from "failed".
C14_MarkerTellsFailureApart ==
    main_pc = "done" =>
        \A d \in Range(urls) :
            /\ "nothing" \in OutcomesOf(d) => Cardinality(MarkerRows(d)) = 1
            /\ OutcomesOf(d) = {"contacts"} => MarkerRows(d) = {}
            /\ OutcomesOf(d) = {"failed"} => MarkerRows(d) = {}

\* --------------------------------------------- extraction (C15, C16, C18)
Malformed(payload) ==
    \/ payload = <<>>
    \/ Len(payload) = 2
    \/ Len(payload) % 2 = 1
    \/ \E i \in 1..Len(payload) : payload[i] \notin HexDigits

\* C15 (as claimed): decode_cf_email returns e for the payload that encodes
\* the email e under the key byte k, whatever e and k; for a malformed
\* payload (empty, a character that is no hex digit, odd length, the key
\* alone) it gives no email.
C15_DecodeRoundTrip ==
    (ex_pc = "parsed" /\ cf_tag.kind # "none") =>
        /\ \A e \in {Email_io, Email_js}, k \in KeyBytes \cap {HexInt(Slice2(cf_tag.payload, 0))} :
              cf_tag.payload = Encode(e, k) => decoded = Str(e)
        /\ Malformed(cf_tag.payload) => (decoded.none \/ decoded.text = <<>>)

\* '.png', '.jpg', '.gif', '.jpeg', '.css', '.js', '.svg', '.webp'
AssetExtensions ==
    FilteredExtensions \cup {<<46, 115, 118, 103>>, <<46, 119, 101, 98, 112>>}
\* C16 (as claimed): no email parse_html_for_emails_and_links returns ends
\* in an asset extension, whether it was matched in the text or decoded.
C16_NoAssetEmails ==
    ex_pc = "parsed" =>
        \A m \in emails_out : \A ext \in AssetExtensions : ~EndsWith(m, ext)

\* The emails of the page text in page order, as the analyzer reads them.
EmailsInPageOrder(matches) ==
    SelectSeq([i \in 1..Len(matches) |-> LowerText(matches[i])], KeepMatch)
\* C18 (as claimed): for a page with n >= 1 names and at least one email,
\* find_contacts_on_case_study_page returns n candidates, one per name in
\* order, each of confidence low and each with the first email found on
\* the page; with no name or no email it returns none.
C18_CaseStudyFirstEmail ==
    cs_pc = "analyzed" =>
        LET found == EmailsInPageOrder(cs_page.matches)
            n == Len(cs_page.persons)
        IN  IF n >= 1 /\ found # <<>>
            THEN /\ Len(cs_contacts) = n
                 /\ \A i \in 1..n :
                       /\ cs_contacts[i].name = cs_page.persons[i].name
                       /\ cs_contacts[i].confidence = "low"
                       /\ cs_contacts[i].email = found[1]
            ELSE cs_contacts = <<>>

\* ------------------------------------------------- crawl (C17, C19, C20)
\* C17 (as claimed): when the priority scan ends after a page with the
\* anchor <a href="mailto:E">T</a> (T non-empty, without '@', E nowhere
\* else), found_data holds exactly one record with email E, its name is T,
\* and scrape_website returns at once without calling get_sitemap_urls.
C17_MailtoHalts ==
    [][(pc = "priority" /\ priority_todo = <<>> /\ mailto_seen) =>
          /\ pc' = "returned"
          /\ ~resolver_called'
          /\ Cardinality({i \in 1..Len(found_data') :
                             found_data'[i].email = MailtoEmail}) = 1
          /\ \A i \in 1..Len(found_data') :
                found_data'[i].email = MailtoEmail => found_data'[i].name = MailtoText]_vars

\* C19 (as claimed): the mode is rendered exactly when the probe failed, or
\* gave no page link and no document link, or the html holds the marker and
\* no plain (not decoded) email was found.
C19_ModeByPlainEmails ==
    pc = "homepage" =>
        (use_playwright <=> \/ probe.outcome = "failed"
                            \/ (~probe.links /\ ~probe.files)
                            \/ (probe.marker /\ ~probe.plain))
\* C19 (amended): the mode is rendered exactly when the probe failed with a
\* RequestException, or gave no page link and no document link, or the html
\* holds the marker and no email at all was found, decoded ones included;
\* use_playwright does not change afterwards and every fetch of the
\* homepage, the priority scan and the main crawl is made in that mode.
C19_ModeByAllEmails ==
    /\ [](pc = "homepage" =>
            (use_playwright <=> \/ probe.outcome = "failed"
                                \/ (~probe.links /\ ~probe.files)
                                \/ (probe.marker /\ ~probe.plain /\ ~probe.decoded)))
    /\ [][pc # "mode_detect" => use_playwright' = use_playwright]_vars
    /\ [](\A i \in FetchesIn({"home", "priority", "main"}) :
              fetch_log[i].rendered = use_playwright)
\* C19 witness: the probe found the marker, links and only a decoded email,
\* and the mode is static.
C19_Witness ==
    /\ pc = "homepage"
    /\ probe.outcome = "ok"
    /\ probe.marker /\ probe.decoded /\ ~probe.plain /\ probe.links
    /\ ~use_playwright

Failed(outcomes) == {o \in outcomes : o.kind = "failed"}
\* C20: a sitemap that fails (status, fetch error, parse error) adds nothing
\* to the result and does not end the loop; when get_sitemap_urls returns,
\* every sitemap URL that was ever pending has been fetched and the result
\* is the union of the page URLs of the well-formed sitemaps.
C20_FailedSitemapSkipped ==
    /\ [][Failed(sm_outcome') \ Failed(sm_outcome) # {} =>
             /\ pc' = "sitemap_loop"
             /\ sm_found' = sm_found
             /\ \E o \in Failed(sm_outcome') \ Failed(sm_outcome) :
                   urls_to_parse' = urls_to_parse \ {o.url}]_vars
    /\ [][(pc = "sitemap_loop" /\ pc' = "main_crawl") =>
             /\ sm_pending \subseteq {o.url : o \in sm_outcome}
             /\ sitemap_urls' = UNION {o.locs : o \in sm_outcome}]_vars
\* C20 witness: the resolver is through, one sitemap failed and another
\* one, fetched after it, gave page URLs.
C20_Witness ==
    /\ pc = "sitemap_loop"
    /\ urls_to_parse = {}
    /\ \E i, j \in 1..Len(sitemap_log) :
          /\ i < j
          /\ \E o \in Failed(sm_outcome) : o.url = sitemap_log[i]
          /\ \E o \in sm_outcome : o.url = sitemap_log[j] /\ o.locs # {}

\* ------------------------------------------------------- resolver (C21)
\* The sitemaps get_sitemap_urls must start from, by what robots.txt gave.
NamedSitemaps ==
    IF sm_robots.outcome = "ok" /\ sm_robots.directives # {}
    THEN sm_robots.directives ELSE {DefaultSitemap}
\* The sitemaps reachable from the set S through the indexes fetched.
RECURSIVE ReachableSitemaps(_, _)
ReachableSitemaps(S, outcomes) ==
    LET T == S \cup UNION {o.nested : o \in {x \in outcomes : x.url \in S}}
    IN  IF T = S THEN S ELSE ReachableSitemaps(T, outcomes)

\* C21: get_sitemap_urls starts from the Sitemap: targets of robots.txt, or
\* from /sitemap.xml when robots.txt names none or cannot be read; it
\* fetches exactly the sitemaps reachable from them through indexes, and it
\* returns exactly the <loc> page entries of the non-index sitemaps among
\* them, an index adding sitemaps to resolve and no page URL.
C21_ResultIsPageLocs ==
    /\ [][pc = "robots" => (pc' = "sitemap_loop" /\ urls_to_parse' = NamedSitemaps')]_vars
    /\ [][(pc = "sitemap_loop" /\ pc' = "main_crawl") =>
             LET reach == ReachableSitemaps(NamedSitemaps, sm_outcome)
                 urlsets == {o \in sm_outcome : o.kind = "urlset" /\ o.url \in reach}
             IN  /\ {o.url : o \in sm_outcome} = reach
                 /\ sitemap_urls' = UNION {o.locs : o \in urlsets}
                 /\ \A o \in sm_outcome : o.kind = "index" => o.nested \subseteq reach]_vars
    /\ [][\A o \in sm_outcome' \ sm_outcome :
             o.kind = "index" => (sm_found' = sm_found /\ o.nested \subseteq urls_to_parse')]_vars
\* C21 witness: the resolver is through; robots.txt named a sitemap index,
\* and a sitemap named by an index only gave page URLs.
C21_Witness ==
    /\ pc = "sitemap_loop"
    /\ urls_to_parse = {}
    /\ sm_robots.outcome = "ok"
    /\ \E o \in sm_outcome :
          /\ o.kind = "index"
          /\ \E n \in sm_outcome :
                n.url \in o.nested /\ n.url \notin NamedSitemaps /\ n.locs # {}

\* ------------------------------------------------- crawl (C22 .. C26)
\* C22 (as claimed): without a sitemap the main crawl starts from the
\* not-yet-visited page links of the priority pages, takes URLs from the
\* front of the queue and appends the new ones at its end, and when it ends
\* below the page cap every page of the crawled domain that a successfully
\* fetched page links to has been fetched.
C22_LinkedPagesFetched ==
    /\ [][(pc = "sitemap_loop" /\ pc' = "main_crawl" /\ sm_found = {}) =>
             Range(urls_to_visit') = links_for_general_crawl \ visited_urls]_vars
    /\ [][(pc = "main_crawl" /\ pc' = "main_crawl" /\ sitemap_urls = {}) =>
             /\ Len(urls_to_visit') >= Len(urls_to_visit) - 1
             /\ SubSeq(urls_to_visit', 1, Len(urls_to_visit) - 1) = Tail(urls_to_visit)]_vars
    /\ [][(/\ pc = "main_crawl" /\ pc' = "returned"
           /\ sitemap_urls = {}
           /\ pages_crawled < MAX_PAGES_PER_DOMAIN) =>
             linked_pages \subseteq visited_urls]_vars

\* C23: a fetch of the priority scan or of the main crawl that fails with a
\* caught error counts as one page fetched and marks its URL visited; it
\* adds no record, no processed document and no URL to the frontier (the
\* main crawl's queue only loses the URL that was dequeued for the fetch),
\* and the crawl goes on.
C23_FailedFetchFrame ==
    [][last_fetch' = "failed" =>
          /\ pages_crawled' = pages_crawled + 1
          /\ Len(fetch_log') = Len(fetch_log) + 1
          /\ fetch_log'[Len(fetch_log')].url \notin visited_urls
          /\ visited_urls' = visited_urls \cup {fetch_log'[Len(fetch_log')].url}
          /\ found_data' = found_data
          /\ processed_file_urls' = processed_file_urls
          /\ links_for_general_crawl' = links_for_general_crawl
          /\ enqueue_log' = enqueue_log
          /\ urls_to_visit' = IF pc = "main_crawl" THEN Tail(urls_to_visit) ELSE urls_to_visit
          /\ pc' = pc]_vars
\* C23 witness: a fetch of the main crawl failed while contacts were held
\* and URLs were waiting.
C23_Witness ==
    /\ pc = "main_crawl"
    /\ last_fetch = "failed"
    /\ found_data # <<>>
    /\ urls_to_visit # <<>>

\* Path 1 of the crawled host stands for /contact, one of the fixed
\* contact-bearing paths of spec 4.5.
FixedContactUrls == {<<OwnHost, 1, "">>}
\* C24 (as claimed): when the priority scan ends below the page cap, it has
\* visited the homepage and the fixed contact-bearing paths of the domain,
\* whether or not the homepage links to them.
C24_FixedPathsVisited ==
    (pc = "priority" /\ priority_todo = <<>> /\ pages_crawled < MAX_PAGES_PER_DOMAIN) =>
        ({base_url} \cup FixedContactUrls) \subseteq visited_urls

\* C25 (as claimed): every page fetch of the priority scan and of the main
\* crawl that follows another page fetch of the domain is made after a
\* politeness delay.
C25_DelayBetweenFetches ==
    \A i \in FetchesIn({"priority", "main"}) :
        (\E j \in FetchesIn({"home", "priority", "main"}) : j < i) => fetch_log[i].slept > 0

\* C26 (as claimed): a document link is handed to process_file_url and is
\* never fetched as a page, also when it arrives as a priority link or as
\* a sitemap entry: no fetch of the priority scan or of the main crawl has
\* a document URL, and every record taken from a document names a document
\* that was processed.
C26_DocumentsNeverFetched ==
    /\ \A i \in FetchesIn({"priority", "main"}) : ~IsDocument(fetch_log[i].url)
    /\ \A i \in 1..Len(found_data) :
          IsDocument(found_data[i].source) => found_data[i].source \in processed_file_urls

\* C29 (as claimed): every URL fetched as a page, by the priority scan as
\* well as by the main crawl, is on the host of the crawled domain, a
\* leading "www." not counted.
C29_OnlyOwnDomainFetched ==
    \A i \in FetchesIn({"home", "priority", "main"}) : ~OffDomain(fetch_log[i].url)

\* ------------------------------------------------------ resources (C30)
\* C30 (as claimed): once the page or the session of the crawl was opened,
\* scrape_website is left (by return or by exception) with that one closed
\* and the other one never opened.
C30_ResourcesClosed ==
    (pc \in {"returned", "raised"} /\ (page # "none" \/ session # "none")) =>
        \/ (page = "closed" /\ session = "none")
        \/ (page = "none" /\ session = "closed")

\* ------------------------------------------------- key rotation (C27, C28)
\* The key strings at the indexes rotate_key was called at.
RotatedAwayKeys == {keys[i + 1] : i \in {j \in rotated_from : j < Len(keys)}}

C28_HunterTerminates ==
    /\ [](hc_requests <= Len(keys))
    /\ [][(hc_requests' = hc_requests + 1 /\ hc_status'.status \in {401, 429}) =>
             /\ current_key_index' = current_key_index + 1
             /\ hc_pc' = IF current_key_index' < Len(keys) THEN "loop" ELSE "returned"
             /\ hc_pc' = "returned" => hc_result' = "empty"]_vars
    /\ [][(hc_requests' = hc_requests + 1 /\ hc_status'.status \notin {401, 429}) =>
             /\ hc_pc' = "returned"
             /\ current_key_index' = current_key_index
             /\ hc_result' = "contacts" <=> hc_status'.body = "emails"]_vars
    /\ [][(hc_pc = "loop" /\ current_key_index >= Len(keys)) =>
             /\ hc_pc' = "returned"
             /\ hc_result' = "empty"
             /\ hc_requests' = hc_requests]_vars
    /\ (hc_pc = "loop" ~> hc_pc = "returned")
\* C28 witness: the first call used up both keys of the manager with two
\* requests, the second call returned without a request.
C28_Witness ==
    /\ hc_pc = "returned"
    /\ hc_calls = 2
    /\ hc_requests = 0
    /\ hc_result = "empty"
    /\ Len(keys) = 2
    /\ current_key_index = 2
====
